---- MODULE Spec2Model ----
(***************************************************************************)
(* Model of graph-rs/src/lib.rs: the Builder of an arithmetic computation  *)
(* graph (init, constant, add, mul, hint, assert_equal) and its two        *)
(* passes, fill_nodes and check_constraints.                               *)
(*                                                                         *)
(* A HashMap<usize, u32> is a function whose domain is its key set.        *)
(* A Node handle is the pair (owner, id): the Builder methods read only    *)
(* the id of a handle, so a handle of another Builder is a handle whose    *)
(* id this Builder may not have allocated yet.                             *)
(***************************************************************************)
EXTENDS Integers, Sequences, FiniteSets, TLC

\* ---------------------------------------------------------------- bounds
\* The Builder is followed until it holds MaxNodes nodes.
MaxNodes == 3
\* A hint is given at most MaxDeps dependency handles.
MaxDeps == 2
\* At most MaxConstraints constraints are registered.
MaxConstraints == 2

\* A u32 is the pair <<hi, lo>> of its 16-bit halves, hi * 2^16 + lo: the
\* integers TLC computes with are narrower than 2^32.
Half == 2 ^ 16
U32Of(hi, lo) == <<hi, lo>>
Hi(x) == x[1]
Lo(x) == x[2]
Zero == U32Of(0, 0)
\* 4294967295, u32::MAX
MaxU32 == U32Of(Half - 1, Half - 1)

\* Values given to constant(): 2 and 4294967295.
ConstVals == {U32Of(0, 2), MaxU32}
\* Values the caller puts in a mapping: 3 and 4294967295.
InputVals == {U32Of(0, 3), MaxU32}
\* Keys the caller puts in a mapping: ids inside and outside the graph.
InputKeys == 0 .. (MaxNodes - 1)
\* Ids carried by the handles of another Builder that the caller may pass.
ForeignIds == {MaxNodes - 1}
\* The closures the caller passes to hint(): the wrapping sum of the values
\* it is given, and the number of entries it is given.
HintFns == {"sum", "count"}

VARIABLES
    nodes,          \* Builder.nodes: Vec<Node>
    constraints,    \* Builder.constraints: Vec<Constraint>
    next_id,        \* Builder.next_id
    next_hint_id,   \* Builder.next_hint_id
    returned,       \* ids of the handles the node-creation calls returned
    misused,        \* TRUE once a handle of another Builder was passed
    pc,             \* "idle": no call in progress; "process": fill_nodes is in
                    \* the loop of line 235; "done": fill_nodes returned;
                    \* "checked": check_constraints returned
    inputs,         \* fill_nodes: the inputs argument
    values,         \* fill_nodes: the local values map
    idx,            \* fill_nodes: position of the loop of line 235 (1-based)
    result,         \* fill_nodes: the Result it returned
    calls,          \* fill_nodes: the hint functions invoked, with their argument
    visited,        \* fill_nodes: the ids of the nodes the loop of line 235 took
    prev,           \* the Result of the call before, when it had the same arguments
    checked         \* check_constraints: its argument and the bool it returned

bvars == <<nodes, constraints, next_id, next_hint_id>>
cvars == <<pc, inputs, values, idx, result, calls, visited, prev, checked>>
vars == <<nodes, constraints, next_id, next_hint_id, returned, misused,
          pc, inputs, values, idx, result, calls, visited, prev, checked>>

\* ------------------------------------------------------------- HashMap
EmptyMap == <<>>

\* entry(k).or_insert(v): an entry already there is kept.
InsertIfAbsent(m, k, v) ==
    [x \in (DOMAIN m) \cup {k} |-> IF x \in DOMAIN m THEN m[x] ELSE v]

\* HashMap::insert
Insert(m, k, v) == [x \in (DOMAIN m) \cup {k} |-> IF x = k THEN v ELSE m[x]]

ContainsKey(m, k) == k \in DOMAIN m

\* Every mapping the caller may build.
Mappings == UNION {[S -> InputVals] : S \in SUBSET InputKeys}

\* --------------------------------------------------------------- nodes
NodeOf(id, ty, v, a, b, deps, hid, f) ==
    [id |-> id, node_type |-> ty, value |-> v, a |-> a, b |-> b,
     deps |-> deps, hint_id |-> hid, func |-> f]

InputNode(id) == NodeOf(id, "Input", Zero, 0, 0, <<>>, 0, "none")
ConstantNode(id, v) == NodeOf(id, "Constant", v, 0, 0, <<>>, 0, "none")
AddNode(id, a, b) == NodeOf(id, "Add", Zero, a, b, <<>>, 0, "none")
MulNode(id, a, b) == NodeOf(id, "Mul", Zero, a, b, <<>>, 0, "none")
HintNode(id, deps, hid, f) == NodeOf(id, "Hint", Zero, 0, 0, deps, hid, f)

\* The handles this Builder returned.
OwnHandles == {[own |-> TRUE, id |-> i] : i \in returned}
\* The handles of another Builder.
ForeignHandles == {[own |-> FALSE, id |-> i] : i \in ForeignIds}

\* The dependency lists a caller holding the handles H can pass to hint().
HandleSeqs(H) == UNION {[1 .. n -> H] : n \in 0 .. MaxDeps}

NoResult == [ok |-> FALSE, values |-> EmptyMap, text |-> "none", args |-> <<>>]
NoCheck == [called |-> FALSE, values |-> EmptyMap, result |-> FALSE]

\* The Builder is borrowed for the whole of a fill_nodes or check_constraints
\* call: the next call starts when no call is in progress.
CanBuild == pc = "idle"

Init ==
    /\ nodes = <<>>
    /\ constraints = <<>>
    /\ next_id = 0
    /\ next_hint_id = 0
    /\ returned = {}
    /\ misused = FALSE
    /\ pc = "idle"
    /\ inputs = EmptyMap
    /\ values = EmptyMap
    /\ idx = 0
    /\ result = NoResult
    /\ calls = <<>>
    /\ visited = <<>>
    /\ prev = NoResult
    /\ checked = NoCheck

\* ------------------------------------------------------ Builder methods
\* Builder::init
InitNode ==
    /\ CanBuild
    /\ Len(nodes) < MaxNodes
    /\ LET id == next_id IN
        /\ next_id' = next_id + 1
        /\ nodes' = Append(nodes, InputNode(id))
        /\ returned' = returned \cup {id}
    /\ UNCHANGED <<constraints, next_hint_id, misused>>
    /\ UNCHANGED cvars

\* Builder::constant
Constant(value) ==
    /\ CanBuild
    /\ Len(nodes) < MaxNodes
    /\ LET id == next_id IN
        /\ next_id' = next_id + 1
        /\ nodes' = Append(nodes, ConstantNode(id, value))
        /\ returned' = returned \cup {id}
    /\ UNCHANGED <<constraints, next_hint_id, misused>>
    /\ UNCHANGED cvars

\* add() recording the new node's own id as its right operand.
AddSelf(a, b) ==
    /\ CanBuild
    /\ Len(nodes) < MaxNodes
    /\ LET id == next_id IN
        /\ next_id' = next_id + 1
        /\ nodes' = Append(nodes, AddNode(id, a.id, id))
        /\ returned' = returned \cup {id}
    /\ misused' = (misused \/ ~a.own \/ ~b.own)
    /\ UNCHANGED <<constraints, next_hint_id>>
    /\ UNCHANGED cvars

\* Builder::add
Add(a, b) ==
    /\ CanBuild
    /\ Len(nodes) < MaxNodes
    /\ LET id == next_id IN
        /\ next_id' = next_id + 1
        /\ nodes' = Append(nodes, AddNode(id, a.id, b.id))
        /\ returned' = returned \cup {id}
    /\ misused' = (misused \/ ~a.own \/ ~b.own)
    /\ UNCHANGED <<constraints, next_hint_id>>
    /\ UNCHANGED cvars

\* mul() recording the position after the left operand's in place of its id.
MulOffByOne(a, b) ==
    /\ CanBuild
    /\ Len(nodes) < MaxNodes
    /\ LET id == next_id IN
        /\ next_id' = next_id + 1
        /\ nodes' = Append(nodes, MulNode(id, a.id + 1, b.id))
        /\ returned' = returned \cup {id}
    /\ misused' = (misused \/ ~a.own \/ ~b.own)
    /\ UNCHANGED <<constraints, next_hint_id>>
    /\ UNCHANGED cvars

\* Builder::mul
Mul(a, b) ==
    /\ CanBuild
    /\ Len(nodes) < MaxNodes
    /\ LET id == next_id IN
        /\ next_id' = next_id + 1
        /\ nodes' = Append(nodes, MulNode(id, a.id, b.id))
        /\ returned' = returned \cup {id}
    /\ misused' = (misused \/ ~a.own \/ ~b.own)
    /\ UNCHANGED <<constraints, next_hint_id>>
    /\ UNCHANGED cvars

\* assert_equal() taking an id for the constraint it registers.
AssertEqualAllocating(a, b) ==
    /\ CanBuild
    /\ Len(constraints) < MaxConstraints
    /\ constraints' = Append(constraints, [left |-> a.id, right |-> b.id])
    /\ next_id' = next_id + 1
    /\ misused' = (misused \/ ~a.own \/ ~b.own)
    /\ UNCHANGED <<nodes, next_hint_id, returned>>
    /\ UNCHANGED cvars

\* Builder::assert_equal
AssertEqual(a, b) ==
    /\ CanBuild
    /\ Len(constraints) < MaxConstraints
    /\ constraints' = Append(constraints, [left |-> a.id, right |-> b.id])
    /\ misused' = (misused \/ ~a.own \/ ~b.own)
    /\ UNCHANGED <<nodes, next_id, next_hint_id, returned>>
    /\ UNCHANGED cvars

\* Builder::hint
Hint(dependencies, compute_func) ==
    /\ CanBuild
    /\ Len(nodes) < MaxNodes
    /\ LET id == next_id
           hint_id == next_hint_id
           dependency_ids == [i \in DOMAIN dependencies |-> dependencies[i].id]
       IN
        /\ next_id' = next_id + 1
        /\ next_hint_id' = next_hint_id + 1
        /\ nodes' = Append(nodes, HintNode(id, dependency_ids, hint_id, compute_func))
        /\ returned' = returned \cup {id}
    /\ misused' = (misused \/ \E i \in DOMAIN dependencies : ~dependencies[i].own)
    /\ UNCHANGED constraints
    /\ UNCHANGED cvars

\* ------------------------------------------------------- u32 arithmetic
\* u32::saturating_add
SaturatingAdd(x, y) ==
    LET lo == Lo(x) + Lo(y)
        hi == Hi(x) + Hi(y) + (lo \div Half)
    IN IF hi >= Half THEN MaxU32 ELSE U32Of(hi, lo % Half)

\* u32::wrapping_add
WrappingAdd(x, y) ==
    LET lo == Lo(x) + Lo(y)
        hi == Hi(x) + Hi(y) + (lo \div Half)
    IN U32Of(hi % Half, lo % Half)

\* The 32-bit product of two 16-bit halves, by bytes.
Mul16(p, q) ==
    LET p1 == p \div 256
        p0 == p % 256
        q1 == q \div 256
        q0 == q % 256
        mid == p1 * q0 + p0 * q1
        t == (mid % 256) * 256 + p0 * q0
    IN U32Of(p1 * q1 + (mid \div 256) + (t \div Half), t % Half)

\* u32::wrapping_mul
WrappingMul(x, y) ==
    LET ll == Mul16(Lo(x), Lo(y))
        hl == Mul16(Hi(x), Lo(y))
        lh == Mul16(Lo(x), Hi(y))
    IN U32Of((Hi(ll) + Lo(hl) + Lo(lh)) % Half, Lo(ll))

\* ------------------------------------------- arithmetic modulo 2^32
\* The four base-256 digits of a u32, least significant first, and back.
Bytes(x) == <<Lo(x) % 256, Lo(x) \div 256, Hi(x) % 256, Hi(x) \div 256>>
FromBytes(d) == U32Of(d[3] + 256 * d[4], d[1] + 256 * d[2])

\* (x + y) mod 2^32: the sum digit by digit, the carry out of the fourth
\* digit discarded.
AddMod32(x, y) ==
    LET d == Bytes(x)
        e == Bytes(y)
        t1 == d[1] + e[1]
        t2 == d[2] + e[2] + (t1 \div 256)
        t3 == d[3] + e[3] + (t2 \div 256)
        t4 == d[4] + e[4] + (t3 \div 256)
    IN FromBytes(<<t1 % 256, t2 % 256, t3 % 256, t4 % 256>>)

\* (x * y) mod 2^32: the digit products of weight below 256^4, column by
\* column, the carry out of the fourth column discarded.
MulMod32(x, y) ==
    LET d == Bytes(x)
        e == Bytes(y)
        t1 == d[1] * e[1]
        t2 == d[1] * e[2] + d[2] * e[1] + (t1 \div 256)
        t3 == d[1] * e[3] + d[2] * e[2] + d[3] * e[1] + (t2 \div 256)
        t4 == d[1] * e[4] + d[2] * e[3] + d[3] * e[2] + d[4] * e[1] + (t3 \div 256)
    IN FromBytes(<<t1 % 256, t2 % 256, t3 % 256, t4 % 256>>)

\* ------------------------------------------------------- hint closures
RECURSIVE SumOver(_, _)
SumOver(m, keys) ==
    IF keys = {} THEN Zero
    ELSE LET k == CHOOSE x \in keys : TRUE
         IN AddMod32(m[k], SumOver(m, keys \ {k}))

\* (func.func)(&dep_values): the closure sees the mapping it is given, and
\* nothing else.
ApplyHint(f, dep_values) ==
    IF f = "sum" THEN SumOver(dep_values, DOMAIN dep_values)
    ELSE U32Of(0, Cardinality(DOMAIN dep_values))

\* ---------------------------------------------------------- fill_nodes
Ok(v) == [ok |-> TRUE, values |-> v, text |-> "none", args |-> <<>>]
\* Err(format!(text, node.id))
Err(text, id) == [ok |-> FALSE, values |-> EmptyMap, text |-> text, args |-> <<id>>]

MissingInputText == "Missing value for input node {}"
MissingAddText == "Missing values for Add operation at node {}"
MissingMulText == "Missing values for Mul operation at node {}"
MissingHintText == "Missing dependency values for Hint at node {}"

\* No validation of the mapping before the evaluation.
RECURSIVE NoValidation(_, _)
NoValidation(inp, i) == -1

\* The loop of lines 218-224: the id of the first Input node, from position
\* i on, that the mapping has no key for; -1 when there is none.
RECURSIVE FirstMissingInput(_, _)
FirstMissingInput(inp, i) ==
    IF i > Len(nodes) THEN -1
    ELSE IF nodes[i].node_type = "Input" /\ ~ContainsKey(inp, nodes[i].id)
         THEN nodes[i].id
         ELSE FirstMissingInput(inp, i + 1)

\* The loop of lines 230-232.
RECURSIVE Seed(_, _, _)
Seed(m, inp, keys) ==
    IF keys = {} THEN m
    ELSE LET k == CHOOSE x \in keys : TRUE
         IN Seed(Insert(m, k, inp[k]), inp, keys \ {k})

\* The hint function handed the whole values map.
DepLoopWholeMap(deps, i, acc) == [dep_values |-> values, missing_deps |-> FALSE]

\* The loop of lines 266-273, from position i of deps on.
RECURSIVE DepLoop(_, _, _)
DepLoop(deps, i, acc) ==
    IF i > Len(deps) THEN acc
    ELSE IF ContainsKey(values, deps[i])
         THEN DepLoop(deps, i + 1,
                      [acc EXCEPT !.dep_values = Insert(@, deps[i], values[deps[i]])])
         ELSE DepLoop(deps, i + 1, [acc EXCEPT !.missing_deps = TRUE])

\* fill_nodes finding the Input nodes without a value in no fixed order.
FillCallAnyOrder(inp, p) ==
    /\ prev' = p
    /\ inputs' = inp
    /\ calls' = <<>>
    /\ visited' = <<>>
    /\ checked' = NoCheck
    /\ LET absent == {i \in DOMAIN nodes :
                        /\ nodes[i].node_type = "Input"
                        /\ ~ContainsKey(inp, nodes[i].id)}
       IN IF absent # {}
          THEN /\ pc' = "done"
               /\ \E i \in absent : result' = Err(MissingInputText, nodes[i].id)
               /\ values' = EmptyMap
               /\ idx' = 0
          ELSE /\ pc' = "process"
               /\ result' = NoResult
               /\ values' = Seed(EmptyMap, inp, DOMAIN inp)
               /\ idx' = 1
    /\ UNCHANGED <<bvars, returned, misused>>

\* fill_nodes, from the call to the start of the loop of line 235; p is the
\* Result of the call before, when that call had the same arguments.
FillCall(inp, p) ==
    /\ prev' = p
    /\ inputs' = inp
    /\ calls' = <<>>
    /\ visited' = <<>>
    /\ checked' = NoCheck
    /\ LET missing == FirstMissingInput(inp, 1) IN
        IF missing # -1
        THEN /\ pc' = "done"
             /\ result' = Err(MissingInputText, missing)
             /\ values' = EmptyMap
             /\ idx' = 0
        ELSE /\ pc' = "process"
             /\ result' = NoResult
             /\ values' = Seed(EmptyMap, inp, DOMAIN inp)
             /\ idx' = 1
    /\ UNCHANGED <<bvars, returned, misused>>

\* Builder::fill_nodes, called with the mapping inp.
FillNodes(inp) ==
    /\ pc = "idle"
    /\ FillCall(inp, NoResult)

\* Builder::fill_nodes, called again with the mapping of the call that just
\* returned.
Refill ==
    /\ pc = "done"
    /\ prev = NoResult
    /\ FillCall(inputs, result)

\* The ids of the Input nodes.
InputIds == {nodes[i].id : i \in {j \in DOMAIN nodes : nodes[j].node_type = "Input"}}

\* Builder::fill_nodes, called again after a call whose mapping had entries
\* for Input nodes only, with another mapping inp that has the same entries
\* for the Input nodes.
RefillAgreeing(inp) ==
    /\ pc = "done"
    /\ prev = NoResult
    /\ DOMAIN inputs \subseteq InputIds
    /\ inp # inputs
    /\ \A id \in InputIds :
        /\ id \in DOMAIN inp <=> id \in DOMAIN inputs
        /\ id \in DOMAIN inp => inp[id] = inputs[id]
    /\ FillCall(inp, result)

\* The value recorded with entry(id).or_insert(v): a seeded entry is kept.
RecordKeepSeed(id, v) ==
    /\ values' = InsertIfAbsent(values, id, v)
    /\ idx' = idx + 1
    /\ UNCHANGED <<pc, result>>

\* One arm of the match of line 236, on success.
Record(id, v) ==
    /\ values' = Insert(values, id, v)
    /\ idx' = idx + 1
    /\ UNCHANGED <<pc, result>>

\* return Err(..) naming the position in the loop in place of the node id.
FailAtPosition(text, id) ==
    /\ pc' = "done"
    /\ result' = Err(text, idx)
    /\ UNCHANGED <<values, idx>>

\* The failure noted and the loop going on to the next node.
FailAndContinue(text, id) ==
    /\ result' = Err(text, id)
    /\ idx' = idx + 1
    /\ UNCHANGED <<pc, values>>

\* return Err(..) inside the loop.
Fail(text, id) ==
    /\ pc' = "done"
    /\ result' = Err(text, id)
    /\ UNCHANGED <<values, idx>>

\* One iteration of the loop of line 235.
FillStep ==
    /\ pc = "process"
    /\ idx <= Len(nodes)
    /\ LET node == nodes[idx] IN
        CASE node.node_type = "Input" ->
                /\ idx' = idx + 1
                /\ UNCHANGED <<pc, result, values, calls>>
          [] node.node_type = "Constant" ->
                /\ Record(node.id, node.value)
                /\ UNCHANGED calls
          [] node.node_type = "Add" ->
                /\ IF ContainsKey(values, node.a) /\ ContainsKey(values, node.b)
                   THEN Record(node.id, WrappingAdd(values[node.a], values[node.b]))
                   ELSE Fail(MissingAddText, node.id)
                /\ UNCHANGED calls
          [] node.node_type = "Mul" ->
                /\ IF ContainsKey(values, node.a) /\ ContainsKey(values, node.b)
                   THEN Record(node.id, WrappingMul(values[node.a], values[node.b]))
                   ELSE Fail(MissingMulText, node.id)
                /\ UNCHANGED calls
          [] node.node_type = "Hint" ->
                LET d == DepLoop(node.deps, 1,
                                 [dep_values |-> EmptyMap, missing_deps |-> FALSE])
                IN IF d.missing_deps
                   THEN /\ Fail(MissingHintText, node.id)
                        /\ UNCHANGED calls
                   ELSE /\ calls' = Append(calls, [node |-> node.id,
                                                   args |-> d.dep_values])
                        /\ Record(node.id, ApplyHint(node.func, d.dep_values))
    /\ visited' = Append(visited, nodes[idx].id)
    /\ UNCHANGED <<bvars, returned, misused, inputs, prev, checked>>

\* Ok(values), line 286.
FillReturn ==
    /\ pc = "process"
    /\ idx > Len(nodes)
    /\ pc' = "done"
    /\ result' = Ok(values)
    /\ UNCHANGED <<bvars, returned, misused, inputs, values, idx, calls, visited, prev, checked>>

\* ---------------------------------------------------- check_constraints
\* The loop of lines 291-303 skipping a constraint on an id the mapping
\* lacks.
RECURSIVE CheckLoopFailOpen(_, _, _)
CheckLoopFailOpen(cs, m, i) ==
    IF i > Len(cs) THEN TRUE
    ELSE LET constraint == cs[i] IN
         IF ContainsKey(m, constraint.left) /\ ContainsKey(m, constraint.right)
         THEN IF m[constraint.left] # m[constraint.right]
              THEN FALSE
              ELSE CheckLoopFailOpen(cs, m, i + 1)
         ELSE CheckLoopFailOpen(cs, m, i + 1)

\* The loop of lines 291-303, from position i of the constraints cs on.
RECURSIVE CheckLoop(_, _, _)
CheckLoop(cs, m, i) ==
    IF i > Len(cs) THEN TRUE
    ELSE LET constraint == cs[i] IN
         IF ContainsKey(m, constraint.left) /\ ContainsKey(m, constraint.right)
         THEN IF m[constraint.left] # m[constraint.right]
              THEN FALSE
              ELSE CheckLoop(cs, m, i + 1)
         ELSE FALSE

\* Builder::check_constraints
CheckConstraints(m) ==
    /\ pc = "idle"
    /\ checked' = [called |-> TRUE, values |-> m, result |-> CheckLoop(constraints, m, 1)]
    /\ pc' = "checked"
    /\ UNCHANGED <<bvars, returned, misused, inputs, values, idx, result, calls, visited, prev>>

\* The caller drops what fill_nodes or check_constraints returned.
Drop ==
    /\ pc \in {"done", "checked"}
    /\ pc' = "idle"
    /\ inputs' = EmptyMap
    /\ values' = EmptyMap
    /\ idx' = 0
    /\ result' = NoResult
    /\ calls' = <<>>
    /\ visited' = <<>>
    /\ prev' = NoResult
    /\ checked' = NoCheck
    /\ UNCHANGED <<bvars, returned, misused>>

\* ---------------------------------------------------------------- Next
\* The node-creation calls of a caller holding the handles H.
Create(H) ==
    \/ InitNode
    \/ \E v \in ConstVals : Constant(v)
    \/ \E a, b \in H : Add(a, b)
    \/ \E a, b \in H : Mul(a, b)
    \/ \E deps \in HandleSeqs(H), f \in HintFns : Hint(deps, f)

\* fill_nodes, from its call to its return.
Fill ==
    \/ \E inp \in Mappings : FillNodes(inp)
    \/ FillStep
    \/ FillReturn

\* A caller that passes only the handles this Builder returned builds a
\* graph and evaluates it, once or twice with the same mapping.
Next ==
    \/ Create(OwnHandles)
    \/ Fill
    \/ Refill
    \/ Drop

Spec == Init /\ [][Next]_vars

\* A caller that passes only the handles this Builder returned builds a
\* graph and evaluates it with a mapping for the Input nodes only, then with
\* a mapping that has further entries.
NextSeed ==
    \/ Create(OwnHandles)
    \/ Fill
    \/ \E inp \in Mappings : RefillAgreeing(inp)
    \/ Drop

SeedSpec == Init /\ [][NextSeed]_vars

\* A caller that also passes handles of another Builder builds a graph and
\* evaluates it.
NextMisuse ==
    \/ Create(OwnHandles \cup ForeignHandles)
    \/ Fill
    \/ Drop

MisuseSpec == Init /\ [][NextMisuse]_vars

\* A caller builds a graph with the handles this Builder returned and
\* constrains it.
NextBuild ==
    \/ Create(OwnHandles)
    \/ \E a, b \in OwnHandles : AssertEqual(a, b)

BuildSpec == Init /\ [][NextBuild]_vars

\* A caller declares inputs and constants, constrains them and verifies
\* mappings against the constraints.
NextVerify ==
    \/ InitNode
    \/ \E v \in ConstVals : Constant(v)
    \/ \E a, b \in OwnHandles \cup ForeignHandles : AssertEqual(a, b)
    \/ \E m \in Mappings : CheckConstraints(m)
    \/ Drop

VerifySpec == Init /\ [][NextVerify]_vars

\* ========================================================== properties
Range(q) == {q[i] : i \in DOMAIN q}

\* The node with identifier id.
NodeAt(id) == nodes[id + 1]

NodeIds == 0 .. (Len(nodes) - 1)

\* The Input nodes the mapping inp has no entry for.
AbsentInputs(inp) ==
    {id \in NodeIds : NodeAt(id).node_type = "Input" /\ id \notin DOMAIN inp}

\* The reference evaluation of node id against the mapping `inputs`, by
\* recursion on the structure of the graph.
RECURSIVE RefValue(_)
RefValue(id) ==
    LET node == NodeAt(id) IN
    CASE node.node_type = "Input" -> inputs[id]
      [] node.node_type = "Constant" -> node.value
      [] node.node_type = "Add" -> AddMod32(RefValue(node.a), RefValue(node.b))
      [] node.node_type = "Mul" -> MulMod32(RefValue(node.a), RefValue(node.b))
      [] node.node_type = "Hint" ->
            ApplyHint(node.func, [d \in Range(node.deps) |-> RefValue(d)])

\* C1: for a graph built with this Builder's handles and a mapping with an
\* entry for every Input node, fill_nodes returns Ok, and the mapping it
\* returns has, for every node id, the value of the reference evaluation.
C1_FillMatchesReference ==
    (pc = "done" /\ ~misused /\ AbsentInputs(inputs) = {}) =>
        /\ result.ok
        /\ \A id \in NodeIds :
            /\ id \in DOMAIN result.values
            /\ result.values[id] = RefValue(id)

\* A full graph with an Input, a Hint on it and an Add or Mul was evaluated.
C1_Witness ==
    /\ pc = "done"
    /\ result.ok
    /\ Len(nodes) = MaxNodes
    /\ nodes[1].node_type = "Input"
    /\ nodes[2].node_type = "Hint"
    /\ nodes[2].deps # <<>>
    /\ nodes[Len(nodes)].node_type \in {"Add", "Mul"}
    /\ nodes[Len(nodes)].b = 1
    /\ Len(nodes) - 1 \in DOMAIN inputs

\* C2: the value fill_nodes records for an Add node is (l + r) mod 2^32 and
\* for a Mul node (l * r) mod 2^32, l and r being the values of its operands:
\* the step succeeds whatever the operands are, and
\* Add(Constant(4294967295), Constant(2)) is recorded as 1.
C2_WrappingArithmetic ==
    [][(/\ pc = "process"
        /\ idx <= Len(nodes)
        /\ nodes[idx].node_type \in {"Add", "Mul"}
        /\ nodes[idx].a \in DOMAIN values
        /\ nodes[idx].b \in DOMAIN values)
       => LET node == nodes[idx]
              l == values[node.a]
              r == values[node.b]
          IN /\ pc' = "process"
             /\ node.id \in DOMAIN values'
             /\ values'[node.id] = IF node.node_type = "Add"
                                   THEN AddMod32(l, r)
                                   ELSE MulMod32(l, r)
             /\ (node.node_type = "Add" /\ l = MaxU32 /\ r = U32Of(0, 2))
                    => values'[node.id] = U32Of(0, 1)]_vars

\* Add(Constant(4294967295), Constant(2)) was evaluated to 1.
C2_Witness ==
    /\ pc = "done"
    /\ result.ok
    /\ nodes = <<ConstantNode(0, MaxU32), ConstantNode(1, U32Of(0, 2)), AddNode(2, 0, 1)>>
    /\ result.values[2] = U32Of(0, 1)

\* C3: when the mapping lacks an Input node, fill_nodes returns the
\* missing-input failure naming an absent Input node, and it never enters
\* the evaluation loop: no value is recorded and no hint function invoked,
\* wherever the Input is and whatever else is wrong with the graph.
C3_MissingInputFirst ==
    (pc \in {"process", "done"} /\ AbsentInputs(inputs) # {}) =>
        /\ pc = "done"
        /\ ~result.ok
        /\ result.text = MissingInputText
        /\ Len(result.args) = 1
        /\ result.args[1] \in AbsentInputs(inputs)
        /\ ({id \in NodeIds : NodeAt(id).node_type = "Input"} = {0}
                => result.args = <<0>>)
        /\ values = EmptyMap
        /\ calls = <<>>
        /\ idx = 0

\* The last node is an Input the mapping lacks; the first node is an Add
\* whose operand is not resolved when it is reached, the second a Hint.
C3_Witness ==
    /\ pc = "done"
    /\ Len(nodes) = MaxNodes
    /\ nodes[1].node_type = "Add"
    /\ nodes[1].a \notin DOMAIN inputs
    /\ nodes[1].a >= 1
    /\ nodes[2].node_type \in {"Hint", "Constant"}
    /\ nodes[Len(nodes)].node_type = "Input"
    /\ AbsentInputs(inputs) = {Len(nodes) - 1}
    /\ result.text = MissingInputText

\* C4: when every handle passed came from this Builder, the only failure
\* fill_nodes returns is the missing-input one, and it returns it exactly
\* when the mapping lacks an Input node.
C4_OnlyMissingInput ==
    (pc = "done" /\ ~misused) =>
        /\ ~result.ok => result.text = MissingInputText
        /\ result.ok <=> AbsentInputs(inputs) = {}

\* A graph of this Builder's handles with an Add and a Hint on earlier
\* nodes was evaluated.
C4_Witness ==
    /\ pc = "done"
    /\ ~misused
    /\ result.ok
    /\ \E i, j \in 2 .. Len(nodes) :
        /\ nodes[i].node_type \in {"Add", "Mul"}
        /\ nodes[j].node_type = "Hint"
        /\ nodes[j].deps # <<>>

\* A constraint holds in the mapping m: both ids present, values equal.
Holds(c, m) ==
    /\ c.left \in DOMAIN m
    /\ c.right \in DOMAIN m
    /\ m[c.left] = m[c.right]

\* The constraints with left and right exchanged.
Swapped(cs) == [i \in DOMAIN cs |-> [left |-> cs[i].right, right |-> cs[i].left]]

\* C5: check_constraints returns true exactly when every registered
\* constraint has both ids in the mapping with equal values (true for no
\* constraint, false for unequal values, false for an absent id), and it
\* returns the same with left and right exchanged.
C5_CheckConstraintsIff ==
    pc = "checked" =>
        /\ checked.result = (\A i \in DOMAIN constraints : Holds(constraints[i], checked.values))
        /\ constraints = <<>> => checked.result
        /\ checked.result = CheckLoop(Swapped(constraints), checked.values, 1)

\* Two constraints were checked: the first holds, the second names an id
\* the mapping lacks.
C5_Witness ==
    /\ pc = "checked"
    /\ Len(constraints) = 2
    /\ Holds(constraints[1], checked.values)
    /\ constraints[1].left # constraints[1].right
    /\ constraints[2].left \in DOMAIN checked.values
    /\ constraints[2].right \notin DOMAIN checked.values
    /\ ~checked.result

\* C6: the node at position i has id i, next_id is the number of nodes,
\* a node-creation call returns the handle whose id is the number of nodes
\* there were, and assert_equal creates no node and takes no id.
C6_IdsArePositions ==
    /\ [](/\ next_id = Len(nodes)
          /\ \A i \in DOMAIN nodes : nodes[i].id = i - 1
          /\ returned = NodeIds)
    /\ [][/\ nodes' # nodes =>
                /\ Len(nodes') = Len(nodes) + 1
                /\ Len(nodes) \notin returned
                /\ returned' = returned \cup {Len(nodes)}
                /\ nodes'[Len(nodes')].id = Len(nodes)
                /\ constraints' = constraints
          /\ constraints' # constraints =>
                UNCHANGED <<nodes, next_id, next_hint_id, returned>>]_vars

\* Three nodes, one of them a Hint, were created around an assert_equal.
C6_Witness ==
    /\ Len(nodes) = MaxNodes
    /\ \E i \in DOMAIN nodes : nodes[i].node_type = "Hint"
    /\ constraints # <<>>
    /\ constraints[1].left < MaxNodes - 1
    /\ constraints[1].right < MaxNodes - 1
    /\ next_hint_id > 0

\* The ids a node refers to.
Refs(node) ==
    CASE node.node_type \in {"Add", "Mul"} -> {node.a, node.b}
      [] node.node_type = "Hint" -> Range(node.deps)
      [] OTHER -> {}

\* C7: as long as every handle passed came from this Builder, every Add,
\* Mul and Hint node refers only to ids below its own.
C7_RefsBelowOwnId ==
    ~misused => \A i \in DOMAIN nodes : \A r \in Refs(nodes[i]) : r < nodes[i].id

\* A Mul and a Hint with two dependencies, all on this Builder's handles.
C7_Witness ==
    /\ ~misused
    /\ \E i, j \in DOMAIN nodes :
        /\ nodes[i].node_type = "Mul"
        /\ nodes[j].node_type = "Hint"
        /\ Cardinality(Range(nodes[j].deps)) = 2

C9_HintSeesOnlyItsDependencies ==
    [][calls' # calls /\ calls' # <<>> =>
        /\ pc = "process"
        /\ idx <= Len(nodes)
        /\ LET node == nodes[idx]
               call == calls'[Len(calls')]
           IN /\ calls' = Append(calls, call)
              /\ node.node_type = "Hint"
              /\ call.node = node.id
              /\ DOMAIN call.args = Range(node.deps)
              /\ \A d \in Range(node.deps) :
                    /\ d \in DOMAIN values
                    /\ call.args[d] = values[d]]_vars

\* A hint function was invoked with two dependencies while the values map
\* held a further entry.
C9_Witness ==
    /\ pc = "done"
    /\ calls # <<>>
    /\ Cardinality(DOMAIN calls[1].args) = 2
    /\ \E k \in DOMAIN values : k < calls[1].node /\ k \notin DOMAIN calls[1].args

\* The node at which the loop of fill_nodes stopped with a failure.
FailedInLoop ==
    /\ pc = "done"
    /\ ~result.ok
    /\ result.text \in {MissingAddText, MissingMulText, MissingHintText}

\* The ids the failing node refers to that have no value.
MissingRefs == {r \in Refs(nodes[idx]) : r \notin DOMAIN values}

\* C10 as stated: the failure of an Add, Mul or Hint node names the node
\* and, besides, the operand or dependency that is missing.
C10_FailureNamesMissing ==
    FailedInLoop =>
        /\ result.args[1] = nodes[idx].id
        /\ \E k \in 2 .. Len(result.args) : result.args[k] \in MissingRefs

\* C10 as amended: the failure of an Add, Mul or Hint node with an
\* unresolved operand or dependency names the kind of the node and the
\* node, and nothing else.
C10_FailureNamesNodeOnly ==
    FailedInLoop =>
        /\ MissingRefs # {}
        /\ result.args = <<nodes[idx].id>>
        /\ result.text = (CASE nodes[idx].node_type = "Add" -> MissingAddText
                            [] nodes[idx].node_type = "Mul" -> MissingMulText
                            [] nodes[idx].node_type = "Hint" -> MissingHintText
                            [] OTHER -> "none")

\* An Add failed whose left operand has a value and whose right has none.
C10_Witness ==
    /\ FailedInLoop
    /\ result.text = MissingAddText
    /\ nodes[idx].a \in DOMAIN values
    /\ nodes[idx].b \notin DOMAIN values
    /\ idx > 1

\* The ids of the first n nodes, in storage order.
FirstIds(n) == [i \in 1 .. n |-> nodes[i].id]

\* The ids of the Hint nodes among the first n nodes, in storage order.
RECURSIVE HintIds(_)
HintIds(n) ==
    IF n = 0 THEN <<>>
    ELSE IF nodes[n].node_type = "Hint"
         THEN Append(HintIds(n - 1), nodes[n].id)
         ELSE HintIds(n - 1)

\* C11: one fill_nodes call takes the nodes once each in storage order,
\* none twice and none skipped; a successful call has taken them all and
\* invoked each Hint node's function exactly once; a node gets its value
\* only when every id it refers to has one; the call stops at the first
\* failing node, and nothing after it is taken or invoked.
C11_OnePassInOrder ==
    /\ [](/\ pc = "idle" => visited = <<>>
          /\ pc = "process" =>
                /\ result = NoResult
                /\ idx <= Len(nodes) + 1
                /\ visited = FirstIds(idx - 1)
                /\ [i \in DOMAIN calls |-> calls[i].node] = HintIds(idx - 1)
          /\ (pc = "done" /\ result.ok) =>
                /\ visited = FirstIds(Len(nodes))
                /\ [i \in DOMAIN calls |-> calls[i].node] = HintIds(Len(nodes))
          /\ (pc = "done" /\ ~result.ok /\ result.text = MissingInputText) =>
                /\ visited = <<>>
                /\ calls = <<>>
          /\ (pc = "done" /\ ~result.ok /\ result.text # MissingInputText) =>
                /\ idx \in DOMAIN nodes
                /\ visited = FirstIds(idx)
                /\ result.args = <<nodes[idx].id>>
                /\ [i \in DOMAIN calls |-> calls[i].node] = HintIds(idx - 1))
    /\ [][(pc = "process" /\ pc' = "process" /\ visited' # visited) =>
            /\ visited' = Append(visited, nodes[idx].id)
            /\ idx' = idx + 1
            /\ nodes[idx].id \in DOMAIN values'
            /\ Refs(nodes[idx]) \subseteq DOMAIN values
            /\ ~misused => Refs(nodes[idx]) \subseteq Range(visited)]_vars

\* The call stopped at the first node, an Add on a later node, with a Hint
\* and a further node after it.
C11_Witness ==
    /\ pc = "done"
    /\ ~result.ok
    /\ Len(nodes) = MaxNodes
    /\ nodes[1].node_type = "Add"
    /\ nodes[2].node_type = "Hint"
    /\ result.args = <<0>>
    /\ visited = <<0>>

\* C12: entries of the mapping for ids that are not Input nodes change no
\* node's value: a call with such entries returns, for every node id, what
\* the call with the Input entries alone returned (or the same failure);
\* the entries for ids outside the graph are in the returned mapping.
C12_SeedsDoNotInfluence ==
    /\ (pc = "done" /\ prev # NoResult) =>
        /\ result.ok = prev.ok
        /\ ~result.ok => result = prev
        /\ result.ok => \A id \in NodeIds :
                            /\ id \in DOMAIN result.values
                            /\ id \in DOMAIN prev.values
                            /\ result.values[id] = prev.values[id]
    /\ (pc = "done" /\ result.ok) =>
        /\ DOMAIN result.values = NodeIds \cup DOMAIN inputs
        /\ \A k \in (DOMAIN inputs) \ NodeIds : result.values[k] = inputs[k]

\* The second call had an entry for a Constant node, other than its value
\* and read by a later node, and an entry for an id outside the graph.
C12_Witness ==
    /\ pc = "done"
    /\ prev.ok
    /\ result.ok
    /\ \E k \in (DOMAIN inputs) \cap NodeIds :
        /\ NodeAt(k).node_type = "Constant"
        /\ inputs[k] # NodeAt(k).value
        /\ \E i \in DOMAIN nodes : k \in Refs(nodes[i])
    /\ (DOMAIN inputs) \ NodeIds # {}
    /\ result.values # prev.values

====
